---- MODULE Spec2Model ----
(***************************************************************************)
(* A model of the structural-identifiability core of care_nl_ica:          *)
(*   - ARMLP, the autoregressive bottleneck (models/mlp.py)                *)
(*   - Runner.train_step / Runner.training_loop (runner.py) together with  *)
(*     the Logger counters they drive (logger.py)                          *)
(* Tensors are matrices over small integers; element-wise products, tril,  *)
(* diag and matrix-vector products are computed as torch computes them.    *)
(***************************************************************************)
EXTENDS Integers, Sequences, FiniteSets, TLC

\* ------------------------------------------------------------------ bounds
NumVars == 2
MaxVal == 1
MaxWeights == 2
MaxSteps == 2
MaxMuNum == 3
MaxStartStep == 2
MaxLogSteps == 3
\* more_unsupervised is the fraction mu_num / MuDen
MuDen == 2

Idx == 1..NumVars

\* ------------------------------------------------------- tensor operators
Abs(v) == IF v < 0 THEN 0 - v ELSE v

ConstMat(v) == [i \in Idx |-> [j \in Idx |-> v]]

OnesMat == ConstMat(1)

Eye == [i \in Idx |-> [j \in Idx |-> IF i = j THEN 1 ELSE 0]]

\* torch.tril(M, k): keeps the entries on and below the k-th diagonal
Tril(M, k) == [i \in Idx |-> [j \in Idx |-> IF j - i <= k THEN M[i][j] ELSE 0]]

\* the element-wise product A * B
Hadamard(A, B) == [i \in Idx |-> [j \in Idx |-> A[i][j] * B[i][j]]]

MatAdd(A, B) == [i \in Idx |-> [j \in Idx |-> A[i][j] + B[i][j]]]

\* torch.diag(v) of a vector v
Diag(v) == [i \in Idx |-> [j \in Idx |-> IF i = j THEN v[i] ELSE 0]]

RECURSIVE DotUpTo(_, _, _)
DotUpTo(r, x, n) == IF n = 0 THEN 0 ELSE DotUpTo(r, x, n - 1) + r[n] * x[n]

\* the matrix-vector product M @ x
MatVec(M, x) == [i \in Idx |-> DotUpTo(M[i], x, NumVars)]

\* ------------------------------------------------------------- input sets
MixedMat == [i \in Idx |-> [j \in Idx |-> ((i + 2 * j) % (2 * MaxVal + 1)) - MaxVal]]

TMixedMat == [i \in Idx |-> [j \in Idx |-> MixedMat[j][i]]]

LowerMat ==
    [i \in Idx |-> [j \in Idx |->
        IF j <= i THEN (IF (i + j) % 2 = 0 THEN MaxVal ELSE 0 - MaxVal) ELSE 0]]

StrictLowerMat == [i \in Idx |-> [j \in Idx |-> IF j < i THEN 1 ELSE 0]]

UpperMat == [i \in Idx |-> [j \in Idx |-> IF j > i THEN 0 - MaxVal ELSE 0]]

\* the matrices handed to the setter, make_triangular_with_permute and
\* inject_structure
TestMats == {MixedMat, TMixedMat, LowerMat, StrictLowerMat, UpperMat, OnesMat}

\* values a parameter matrix takes at initialisation or after an update
ParamMats == {MixedMat, OnesMat, TMixedMat}

OnesVec == [i \in Idx |-> 1]

ScalingVals == {OnesVec, [i \in Idx |-> 0 - MaxVal]}

BudgetMasks == {OnesMat, StrictLowerMat}

\* permutation matrices: identity, reversal, cyclic shift
PermMat(p) == [i \in Idx |-> [j \in Idx |-> IF p[i] = j THEN 1 ELSE 0]]

Perms ==
    { PermMat([i \in Idx |-> i]),
      PermMat([i \in Idx |-> NumVars + 1 - i]),
      PermMat([i \in Idx |-> (i % NumVars) + 1]) }

\* inputs of forward: the unit vectors and one mixed vector
TestVecs ==
    { [i \in Idx |-> IF i = k THEN 1 ELSE 0] : k \in Idx }
        \cup { [i \in Idx |-> i - MaxVal - 1] }

IsLowerTriangular(M) == \A i \in Idx : \A j \in Idx : j > i => M[i][j] = 0

\* an optional value is the empty set or a singleton
NoValue == {}

Some(v) == {v}

The(s) == CHOOSE v \in s : TRUE

VARIABLES
    \* ARMLP
    num_weights, residual, triangular, budget, weight, scaling, budget_mask,
    transform, permutation_matrix, struct_mask,
    \* history: the constructor's flags, the last ARMLP operation with its matrix
    \* and permutation arguments, the last adjacency injected with inject=True
    built, lastOp, lastArg, lastPerm, inj_adj

arVars ==
    << num_weights, residual, triangular, budget, weight, scaling, budget_mask,
       transform, permutation_matrix, struct_mask, built, lastOp, lastArg, lastPerm,
       inj_adj >>

VARIABLES
    \* Runner and Logger
    hparams, pc, phase, logger, enc, optimizer, saved, events, last

trainVars == << hparams, pc, phase, logger, enc, optimizer, saved, events, last >>

VARIABLES
    \* the SinkhornOperator under construction and call, the ARBottleneckNet under
    \* construction and forward, the FeatureMLP under forward
    sinkhorn, net, feature

compVars == << sinkhorn, net, feature >>

vars == << arVars, trainVars, compVars >>

\* no SinkhornOperator has been requested
SinkhornUnbuilt ==
    [ status |-> "unbuilt", requested |-> NoValue, operator |-> NoValue,
      matrix |-> NoValue, steps |-> << >> ]

\* no ARBottleneckNet has been requested
NetUnbuilt ==
    [ status |-> "unbuilt", args |-> NoValue, ar_bottleneck |-> NoValue,
      object |-> NoValue, input |-> NoValue, forward |-> "not_called" ]

\* no FeatureMLP has been applied
FeatureUnbuilt == [ status |-> "unbuilt", mlp |-> NoValue, calls |-> << >> ]

\* the components that a specification leaves alone
CompIdle ==
    /\ sinkhorn = SinkhornUnbuilt
    /\ net = NetUnbuilt
    /\ feature = FeatureUnbuilt

\* the Runner is not started
TrainIdle ==
    /\ hparams = NoValue
    /\ pc = "idle"
    /\ phase = 0
    /\ logger = NoValue
    /\ enc = NoValue
    /\ optimizer = NoValue
    /\ saved = << >>
    /\ events = << >>
    /\ last = NoValue

\* ------------------------------------------------------------------ ARMLP
RECURSIVE StackProduct(_, _)
StackProduct(w, n) ==
    IF n = 0 THEN OnesMat ELSE Hadamard(StackProduct(w, n - 1), w[n])

\* assembled_weight without the final torch.tril
assembled_weight_NoTril ==
    LET w0 == StackProduct(weight, Len(weight))
        w1 == IF residual = FALSE \/ triangular = FALSE
              THEN w0
              ELSE MatAdd(w0, Diag(The(scaling)))
    IN  IF budget = TRUE THEN Hadamard(w1, The(budget_mask)) ELSE w1

assembled_weight ==
    LET w0 == StackProduct(weight, Len(weight))
        w1 == IF residual = FALSE \/ triangular = FALSE
              THEN w0
              ELSE MatAdd(w0, Diag(The(scaling)))
        assembled == IF triangular = FALSE THEN w1 ELSE Tril(w1, 0)
    IN  IF budget = TRUE THEN Hadamard(assembled, The(budget_mask)) ELSE assembled

\* the setter with strictly-lower neutral factors, tril(ones, -1)
SetterStack_StrictOnes(value) ==
    [k \in 1..num_weights |-> IF k = 1 THEN value ELSE Tril(OnesMat, 0 - 1)]

\* the stack the setter builds from value
SetterStack(value) ==
    [k \in 1..num_weights |-> IF k = 1 THEN value ELSE Tril(OnesMat, 0)]

ApplyTransform(w) == IF transform = "mask" THEN Hadamard(struct_mask, w) ELSE w

\* forward with the permutation applied to the output instead of the input
forward_PermuteAfter(x) ==
    MatVec(permutation_matrix, MatVec(ApplyTransform(assembled_weight), x))

forward(x) == MatVec(ApplyTransform(assembled_weight), MatVec(permutation_matrix, x))

\* the mask without .abs(): negative entries are dropped
MaskOf_NoAbs(adj_mat) ==
    [i \in Idx |-> [j \in Idx |-> IF adj_mat[i][j] > 0 THEN 1 ELSE 0]]

MaskOf(adj_mat) ==
    [i \in Idx |-> [j \in Idx |-> IF Abs(adj_mat[i][j]) > 0 THEN 1 ELSE 0]]

InitWeight(R, tri, res) ==
    IF tri = TRUE THEN Tril(R, IF res = FALSE THEN 0 ELSE 0 - 1) ELSE R

InitAR ==
    /\ TrainIdle
    /\ CompIdle
    /\ budget \in BOOLEAN
    /\ num_weights \in 1..MaxWeights
    /\ residual \in BOOLEAN
    /\ triangular \in BOOLEAN
    /\ \E R \in [1..num_weights -> ParamMats] :
         weight = [k \in 1..num_weights |-> InitWeight(R[k], triangular, residual)]
    /\ scaling = IF residual = TRUE /\ triangular = TRUE THEN Some(OnesVec) ELSE NoValue
    /\ budget_mask \in IF budget = TRUE THEN {Some(B) : B \in BudgetMasks} ELSE {NoValue}
    /\ transform = "identity"
    /\ permutation_matrix = Eye
    /\ struct_mask = OnesMat
    /\ built = [triangular |-> triangular, residual |-> residual]
    /\ lastOp = "init"
    /\ lastArg = NoValue
    /\ lastPerm = NoValue
    /\ inj_adj = NoValue

\* optimizer.step(): the trainable parameters (stack entries, scaling, budget net)
\* take new values
OptimizerStep ==
    /\ UNCHANGED << trainVars, compVars >>
    /\ \E k \in 1..num_weights : \E M \in ParamMats :
         weight' = [weight EXCEPT ![k] = M]
    /\ scaling' \in IF scaling = NoValue THEN {NoValue} ELSE {Some(s) : s \in ScalingVals}
    /\ budget_mask' \in IF budget = TRUE THEN {Some(B) : B \in BudgetMasks} ELSE {NoValue}
    /\ lastOp' = "optimizer"
    /\ lastArg' = NoValue
    /\ lastPerm' = NoValue
    /\ UNCHANGED << num_weights, residual, triangular, budget, transform,
                    permutation_matrix, struct_mask, built, inj_adj >>

\* a setter that also resets the transform, as make_triangular_with_permute does
SetAssembledWeight_ResetsTransform(value) ==
    /\ UNCHANGED << trainVars, compVars >>
    /\ weight' = SetterStack(value)
    /\ transform' = "identity"
    /\ lastOp' = "setter"
    /\ lastArg' = Some(value)
    /\ lastPerm' = NoValue
    /\ UNCHANGED << num_weights, residual, triangular, budget, scaling, budget_mask,
                    permutation_matrix, struct_mask, built, inj_adj >>

\* assembled_weight := value
SetAssembledWeight(value) ==
    /\ UNCHANGED << trainVars, compVars >>
    /\ weight' = SetterStack(value)
    /\ lastOp' = "setter"
    /\ lastArg' = Some(value)
    /\ lastPerm' = NoValue
    /\ UNCHANGED << num_weights, residual, triangular, budget, scaling, budget_mask,
                    transform, permutation_matrix, struct_mask, built, inj_adj >>

make_triangular_with_permute(tri_weight, permute) ==
    /\ UNCHANGED << trainVars, compVars >>
    /\ triangular' = TRUE
    /\ residual' = FALSE
    /\ transform' = "identity"
    /\ weight' = SetterStack(tri_weight)
    /\ permutation_matrix' = permute
    /\ lastOp' = "make_triangular"
    /\ lastArg' = Some(tri_weight)
    /\ lastPerm' = Some(permute)
    /\ UNCHANGED << num_weights, budget, scaling, budget_mask, struct_mask, built,
                    inj_adj >>

inject_structure(adj_mat, inject) ==
    /\ UNCHANGED << trainVars, compVars >>
    /\ IF inject = TRUE
       THEN /\ struct_mask' = MaskOf(adj_mat)
            /\ transform' = "mask"
            /\ inj_adj' = Some(adj_mat)
            /\ lastOp' = "inject"
       ELSE /\ UNCHANGED << struct_mask, transform, inj_adj >>
            /\ lastOp' = "inject_disabled"
    /\ lastArg' = NoValue
    /\ lastPerm' = NoValue
    /\ UNCHANGED << num_weights, residual, triangular, budget, weight, scaling,
                    budget_mask, permutation_matrix, built >>

DoSetAssembledWeight == \E V \in TestMats : SetAssembledWeight(V)

DoMakeTriangular == \E G \in TestMats : \E P \in Perms : make_triangular_with_permute(G, P)

DoInjectStructure == \E A \in TestMats : \E e \in BOOLEAN : inject_structure(A, e)

NextAR ==
    \/ OptimizerStep
    \/ DoSetAssembledWeight
    \/ DoMakeTriangular
    \/ DoInjectStructure

Spec == InitAR /\ [][NextAR]_vars

\* ------------------------------------------------------- claims on ARMLP
StrictlyUpperZero(M) == \A i \in Idx : \A j \in Idx : j > i => M[i][j] = 0

\* C1: with triangular = True, in every reachable state (after construction, after
\* optimizer updates, after the setter with an arbitrary matrix, after
\* make_triangular_with_permute or inject_structure) every strictly-upper entry of
\* assembled_weight is 0.
C1_AssembledWeightTriangular ==
    triangular = TRUE => StrictlyUpperZero(assembled_weight)

\* a triangular bottleneck whose stack product has a nonzero strictly-upper entry,
\* left there by the setter with a non-triangular matrix
C1_Witness ==
    /\ triangular = TRUE
    /\ lastOp = "setter"
    /\ ~StrictlyUpperZero(The(lastArg))
    /\ ~StrictlyUpperZero(StackProduct(weight, Len(weight)))

\* C2 as stated: for every lower-triangular V, reading assembled_weight right after
\* assembled_weight := V returns exactly V.
C2_Original ==
    (lastOp = "setter" /\ IsLowerTriangular(The(lastArg)))
        => assembled_weight = The(lastArg)

\* C2 amended: the read returns exactly V when no residual scaling is added
\* (residual = False or triangular = False) and no budget mask is applied
\* (budget = False).
C2_SetterReadBack ==
    (/\ lastOp = "setter"
     /\ IsLowerTriangular(The(lastArg))
     /\ (residual = FALSE \/ triangular = FALSE)
     /\ budget = FALSE)
        => assembled_weight = The(lastArg)

\* a lower-triangular V with nonzero diagonal and sub-diagonal entries was assigned
\* to a stack that holds neutral factors
C2_Witness ==
    /\ lastOp = "setter"
    /\ IsLowerTriangular(The(lastArg))
    /\ \E i \in Idx : The(lastArg)[i][i] # 0
    /\ \E i \in Idx : \E j \in Idx : j < i /\ The(lastArg)[i][j] # 0
    /\ num_weights >= 2
    /\ (residual = FALSE \/ triangular = FALSE)
    /\ budget = FALSE

\* the case of C3: built triangular and not residual, inject_structure(G, True)
\* came first and make_triangular_with_permute(G, P) was the last operation
C3_Case ==
    /\ built.triangular = TRUE
    /\ built.residual = FALSE
    /\ lastOp = "make_triangular"
    /\ inj_adj = lastArg

C3_ForwardIsTrilGP ==
    \A x \in TestVecs :
        forward(x) = MatVec(Tril(The(lastArg), 0), MatVec(The(lastPerm), x))

\* C3 as stated: after inject_structure(G, True) and make_triangular_with_permute(G, P)
\* forward(x) = tril(G) @ (P @ x) for every x.
C3_Original == C3_Case => C3_ForwardIsTrilGP

\* C3 amended: the same, for a bottleneck without a budget mask (budget = False).
C3_ForwardAfterMakeTriangular == (C3_Case /\ budget = FALSE) => C3_ForwardIsTrilGP

\* G is not triangular, P is not the identity and does not commute with tril(G)
C3_Witness ==
    /\ C3_Case
    /\ budget = FALSE
    /\ ~StrictlyUpperZero(The(lastArg))
    /\ The(lastPerm) # Eye
    /\ \E x \in TestVecs :
         MatVec(Tril(The(lastArg), 0), MatVec(The(lastPerm), x))
            # MatVec(The(lastPerm), MatVec(Tril(The(lastArg), 0), x))

C4_MaskIsSupport ==
    lastOp = "inject" =>
        \A i \in Idx : \A j \in Idx :
            /\ struct_mask[i][j] \in {0, 1}
            /\ struct_mask[i][j] = 1 <=> The(inj_adj)[i][j] # 0

C4_TransformZeroOffSupport ==
    (transform = "mask" /\ inj_adj # NoValue) =>
        \A i \in Idx : \A j \in Idx :
            The(inj_adj)[i][j] = 0 => ApplyTransform(assembled_weight)[i][j] = 0

\* C4: after inject_structure(adj, True) the mask is 1 exactly where |adj| > 0, the
\* weight forward applies is 0 wherever adj is 0 whatever the stack holds, and
\* inject_structure(adj, False) changes neither the mask nor the transform.
C4_InjectStructure ==
    /\ [](C4_MaskIsSupport /\ C4_TransformZeroOffSupport)
    /\ [][lastOp' = "inject_disabled"
            => (struct_mask' = struct_mask /\ transform' = transform)]_vars

\* a negative adjacency entry is in the mask, and after an optimizer update the
\* mask zeroes an entry of the assembled weight that is not 0
C4_Witness ==
    /\ lastOp = "optimizer"
    /\ transform = "mask"
    /\ inj_adj # NoValue
    /\ \E i \in Idx : \E j \in Idx : The(inj_adj)[i][j] < 0 /\ struct_mask[i][j] = 1
    /\ \E i \in Idx : \E j \in Idx :
         The(inj_adj)[i][j] = 0 /\ assembled_weight[i][j] # 0

\* C5 as stated: once injected, the transform stays the mask multiplication after
\* every operation other than another inject_structure call.
C5_Original ==
    [][(transform = "mask" /\ lastOp' \notin {"inject", "inject_disabled"})
            => (transform' = "mask" /\ struct_mask' = struct_mask)]_vars

\* C5 amended: ... after every operation other than another inject_structure call
\* or make_triangular_with_permute, which resets the transform to the identity.
C5_InjectionPersists ==
    [][(transform = "mask"
            /\ lastOp' \notin {"inject", "inject_disabled", "make_triangular"})
            => (transform' = "mask" /\ struct_mask' = struct_mask)]_vars

\* structure was injected and the setter and the optimizer have acted since
C5_Witness ==
    /\ transform = "mask"
    /\ inj_adj # NoValue
    /\ struct_mask # OnesMat
    /\ lastOp = "optimizer"
    /\ \E k \in 1..num_weights : weight[k] = Tril(OnesMat, 0)
\* ------------------------------------------------------ Runner and Logger
Coeffs == {0, 1}

\* the values of the loss terms: the primary loss (mse when test, contrastive
\* otherwise) and the structural terms, each computed outside the runner
TermValue(t) ==
    CASE t = "l2" -> 1
      [] t = "l1" -> 2
      [] t = "entropy" -> 4
      [] t = "dep" -> 8
      [] t = "tri" -> 16
      [] t = "qr" -> 32
      [] t = "budget" -> 64
      [] t = "budget_entropy" -> 128
      [] t = "mse" -> 256
      [] t = "contrastive" -> 512

\* total_loss_value += value, with the term's name recorded
AddTerm(acc, t, value) ==
    [acc EXCEPT !.total = acc.total + value, !.added = acc.added \cup {t}]

_l2_loss(acc, hp) ==
    IF hp.l2 # 0 THEN AddTerm(acc, "l2", hp.l2 * TermValue("l2")) ELSE acc

\* hparams.l1 * self.model.encoder.bottleneck_l1_norm multiplies a number by the
\* bound method bottleneck_l1_norm (mlp.py:327, never called): a TypeError
_l1_loss(acc, hp) ==
    IF hp.l1 # 0 /\ hp.use_ar_mlp = TRUE
    THEN [acc EXCEPT !.status = "TypeError"]
    ELSE acc

_sinkhorn_entropy_loss(acc, hp) ==
    IF hp.entropy_coeff # 0 /\ hp.permute = TRUE
    THEN AddTerm(acc, "entropy", hp.entropy_coeff * TermValue("entropy"))
    ELSE acc

_dep_loss(acc, dep_loss) ==
    IF dep_loss # NoValue THEN AddTerm(acc, "dep", The(dep_loss)) ELSE acc

\* the same gate with > for >=
StartStepReached_Strict(hp, global_step) ==
    hp.start_step = NoValue
        \/ (hp.start_step # NoValue /\ global_step > The(hp.start_step))

\* the step gate of the triangularity and QR terms
StartStepReached(hp, global_step) ==
    hp.start_step = NoValue
        \/ (hp.start_step # NoValue /\ global_step >= The(hp.start_step))

_triangularity_loss(acc, hp, global_step) ==
    IF hp.triangularity_loss # 0 /\ StartStepReached(hp, global_step)
    THEN AddTerm(acc, "tri", hp.triangularity_loss * TermValue("tri"))
    ELSE acc

_qr_loss(acc, hp, global_step, dep_mat) ==
    IF hp.qr_loss # 0 /\ StartStepReached(hp, global_step)
    THEN IF dep_mat # NoValue
         THEN AddTerm(acc, "qr", hp.qr_loss * TermValue("qr"))
         ELSE acc
    ELSE acc

_budget_loss(acc, hp) ==
    IF hp.budget # 0 /\ hp.use_ar_mlp = TRUE
    THEN LET a == AddTerm(acc, "budget", hp.budget * TermValue("budget"))
         IN  IF hp.entropy_coeff # 0
             THEN AddTerm(a, "budget_entropy",
                          hp.entropy_coeff * TermValue("budget_entropy"))
             ELSE a
    ELSE acc

\* g(acc) unless an earlier term raised
Then(acc, next) == IF acc.status = "ok" THEN next ELSE acc

\* the condition of train_step's learning branch without the lr test
LearningBranch_NoLrTest(hp) == ~hp.identity_mixing_and_solution

\* the condition of train_step's learning branch
LearningBranch(hp) == ~hp.identity_mixing_and_solution /\ hp.lr # 0

\* train_step(data, h, test) at global step global_step, with the dep_loss and
\* dep_mat the loop stored: the returned total, the terms added, and whether
\* backward() and optimizer.step() ran
train_step(hp, global_step, dep_loss, dep_mat, test) ==
    LET primary == TermValue(IF test THEN "mse" ELSE "contrastive")
        a0 == [total |-> primary, added |-> {}, status |-> "ok"]
        a1 == _l2_loss(a0, hp)
        a2 == Then(a1, _l1_loss(a1, hp))
        a3 == Then(a2, _sinkhorn_entropy_loss(a2, hp))
        a4 == Then(a3, _dep_loss(a3, dep_loss))
        a5 == Then(a4, _triangularity_loss(a4, hp, global_step))
        a6 == Then(a5, _qr_loss(a5, hp, global_step, dep_mat))
        a7 == Then(a6, _budget_loss(a6, hp))
        entered == LearningBranch(hp)
        acc == IF entered THEN a7 ELSE a0
    IN  [ status |-> acc.status,
          total |-> acc.total,
          primary |-> primary,
          added |-> acc.added,
          entered |-> entered,
          did_backward |-> entered /\ acc.status = "ok",
          did_opt_step |-> entered /\ acc.status = "ok" ]

\* the while condition of training_loop
LoopCondition(hp, global_step, learning_mode) ==
    IF learning_mode
    THEN global_step <= hp.n_steps
    ELSE global_step * MuDen <= hp.n_steps * hp.mu_num

\* Logger.init_log_lists; the lists are held by their lengths
init_log_lists(lg, hp) ==
    LET emptied == (lg.exists /\ ~hp.resume_training) \/ ~lg.exists
        l1 == IF emptied
              THEN [lg EXCEPT !.exists = TRUE, !.individual_losses_values = 0,
                              !.total_loss_values = 0, !.lin_dis_scores = 0,
                              !.perm_dis_scores = 0, !.causal_check = 0]
              ELSE lg
    IN  [l1 EXCEPT !.global_step = l1.total_loss_values + 1]

\* the branch of Logger.log that computes fresh disentanglement scores
FreshScores(lg, hp) ==
    lg.global_step % hp.n_log_steps = 1 \/ lg.global_step = hp.n_steps

\* Logger.log whose repeat-the-last-score branch forgets causal_check
log_RepeatSkipsCausalCheck(lg, hp) ==
    LET l1 == [lg EXCEPT !.individual_losses_values = @ + 1,
                         !.total_loss_values = @ + 1]
    IN  IF FreshScores(lg, hp)
        THEN [ status |-> "ok",
               logger |-> [l1 EXCEPT !.lin_dis_scores = @ + 1,
                                     !.perm_dis_scores = @ + 1,
                                     !.causal_check = @ + 1,
                                     !.global_step = @ + 1] ]
        ELSE IF lg.lin_dis_scores = 0 \/ lg.perm_dis_scores = 0 \/ lg.causal_check = 0
             THEN [ status |-> "IndexError", logger |-> l1 ]
             ELSE [ status |-> "ok",
                    logger |-> [l1 EXCEPT !.lin_dis_scores = @ + 1,
                                          !.perm_dis_scores = @ + 1,
                                          !.global_step = @ + 1] ]

\* Logger.log: the lists after the call, and whether it raised (the else branch
\* reads [-1] of the score lists)
log(lg, hp) ==
    LET l1 == [lg EXCEPT !.individual_losses_values = @ + 1,
                         !.total_loss_values = @ + 1]
    IN  IF FreshScores(lg, hp)
        THEN [ status |-> "ok",
               logger |-> [l1 EXCEPT !.lin_dis_scores = @ + 1,
                                     !.perm_dis_scores = @ + 1,
                                     !.causal_check = @ + 1,
                                     !.global_step = @ + 1] ]
        ELSE IF lg.lin_dis_scores = 0 \/ lg.perm_dis_scores = 0 \/ lg.causal_check = 0
             THEN [ status |-> "IndexError", logger |-> l1 ]
             ELSE [ status |-> "ok",
                    logger |-> [l1 EXCEPT !.lin_dis_scores = @ + 1,
                                          !.perm_dis_scores = @ + 1,
                                          !.causal_check = @ + 1,
                                          !.global_step = @ + 1] ]

\* the positional arguments of the call self.logger.log(...) in training_loop
LogCallArguments == 15

\* the parameters Logger.log declares after self, and those without a default
LogParameters == 13

LogRequiredParameters == 11

\* whether Python can bind the call's arguments to the parameters
LogCallBinds ==
    LogCallArguments >= LogRequiredParameters /\ LogCallArguments <= LogParameters

\* the call self.logger.log(...) of training_loop: a TypeError before the body of
\* Logger.log runs when the arguments cannot be bound
logger_log_call(lg, hp) ==
    IF LogCallBinds THEN log(lg, hp) ELSE [status |-> "TypeError", logger |-> lg]

ModeNames == {"supervised", "unsupervised", "both"}

\* set_learning_mode with the two phases of 'both' swapped
set_learning_mode_UnsupervisedFirst(mode) ==
    IF mode = "unsupervised" THEN <<FALSE>>
    ELSE IF mode = "supervised" THEN <<TRUE>>
    ELSE <<FALSE, TRUE>>

\* utils.set_learning_mode: the phase list args.learning_modes for args.mode
set_learning_mode(mode) ==
    IF mode = "unsupervised" THEN <<FALSE>>
    ELSE IF mode = "supervised" THEN <<TRUE>>
    ELSE <<TRUE, FALSE>>

Modes == { set_learning_mode(m) : m \in ModeNames }

BaseHparams ==
    [ l1 |-> 0, l2 |-> 0, entropy_coeff |-> 0, qr_loss |-> 0,
      triangularity_loss |-> 0, budget |-> 0, use_ar_mlp |-> TRUE,
      permute |-> FALSE, lr |-> 1, identity_mixing_and_solution |-> FALSE,
      start_step |-> NoValue, n_steps |-> MaxSteps, mu_num |-> MuDen,
      mode |-> "both", learning_modes |-> << >>, resume_training |-> FALSE,
      n_log_steps |-> 2 ]

\* the configurations that vary the loss terms
HparamsStep ==
    { [BaseHparams EXCEPT
          !.l1 = c[1], !.l2 = c[2], !.entropy_coeff = c[3], !.qr_loss = c[4],
          !.triangularity_loss = c[5], !.budget = c[6],
          !.use_ar_mlp = b[1], !.permute = b[2], !.identity_mixing_and_solution = b[3],
          !.lr = r, !.start_step = st] :
        c \in [1..6 -> Coeffs], b \in [1..3 -> BOOLEAN], r \in Coeffs,
        st \in {NoValue} \cup { Some(k) : k \in 1..MaxStartStep } }

\* the configurations that vary the phases and the step budgets
HparamsLoop ==
    { [BaseHparams EXCEPT
          !.n_steps = n, !.mu_num = mu, !.mode = m,
          !.resume_training = rt, !.n_log_steps = nl, !.lr = r, !.l1 = c] :
        n \in 1..MaxSteps, mu \in 0..MaxMuNum, m \in ModeNames, rt \in BOOLEAN,
        nl \in 1..MaxLogSteps, r \in Coeffs, c \in Coeffs }

\* an ARMLP that the Runner's specifications leave alone
ARIdle ==
    /\ num_weights = 1
    /\ residual = FALSE
    /\ triangular = TRUE
    /\ budget = FALSE
    /\ weight = << Tril(OnesMat, 0) >>
    /\ scaling = NoValue
    /\ budget_mask = NoValue
    /\ transform = "identity"
    /\ permutation_matrix = Eye
    /\ struct_mask = OnesMat
    /\ built = [triangular |-> TRUE, residual |-> FALSE]
    /\ lastOp = "init"
    /\ lastArg = NoValue
    /\ lastPerm = NoValue
    /\ inj_adj = NoValue

\* Runner.__init__ and Logger.__init__
InitRunner(H) ==
    /\ ARIdle
    /\ CompIdle
    /\ hparams \in H
    /\ pc = "config"
    /\ phase = 1
    /\ logger = [ exists |-> FALSE, individual_losses_values |-> 0,
                  total_loss_values |-> 0, lin_dis_scores |-> 0,
                  perm_dis_scores |-> 0, causal_check |-> 0, global_step |-> 0 ]
    /\ enc = [gen |-> 0, updates |-> 0]
    /\ optimizer = [gen |-> 0, steps |-> 0]
    /\ saved = << >>
    /\ events = << >>
    /\ last = NoValue

\* train_step is applied at any global step of the first phase: the Logger holds
\* the lists of the steps before it
InitStep ==
    /\ ARIdle
    /\ CompIdle
    /\ \E h \in HparamsStep :
         hparams = [h EXCEPT !.learning_modes = set_learning_mode(h.mode)]
    /\ pc = "loop"
    /\ phase = 1
    /\ \E g \in 1..MaxSteps :
         logger = [ exists |-> TRUE, individual_losses_values |-> g - 1,
                    total_loss_values |-> g - 1, lin_dis_scores |-> g - 1,
                    perm_dis_scores |-> g - 1, causal_check |-> g - 1,
                    global_step |-> g ]
    /\ enc = [gen |-> 0, updates |-> 0]
    /\ optimizer = [gen |-> 0, steps |-> 0]
    /\ saved = << >>
    /\ events = << >>
    /\ last = NoValue

InitLoop == InitRunner(HparamsLoop)

learning_mode == hparams.learning_modes[phase]

\* set_learning_mode(args), called on the configuration before training_loop
\* iterates over args.learning_modes
SetLearningMode ==
    /\ pc = "config"
    /\ hparams' = [hparams EXCEPT !.learning_modes = set_learning_mode(hparams.mode)]
    /\ pc' = "init_log"
    /\ UNCHANGED << phase, logger, enc, optimizer, saved, events, last, arVars, compVars >>

\* training_loop, line 266: self.logger.init_log_lists()
InitLogLists ==
    /\ pc = "init_log"
    /\ logger' = init_log_lists(logger, hparams)
    /\ events' = Append(events, [ev |-> "init", phase |-> phase,
                                 gs |-> logger'.global_step])
    /\ pc' = "loop"
    /\ UNCHANGED << hparams, phase, enc, optimizer, saved, last, arVars, compVars >>

\* one iteration of the while loop: calc_jacobian_loss, train_step (under no_grad
\* when lr = 0), the call of Logger.log
TrainIteration ==
    /\ pc = "loop"
    /\ LoopCondition(hparams, logger.global_step, learning_mode)
    /\ \E dep_loss \in {NoValue, Some(TermValue("dep"))} :
         LET r == train_step(hparams, logger.global_step, dep_loss, Some("dep_mat"),
                             learning_mode)
             lg == logger_log_call(logger, hparams)
             enc1 == IF r.did_opt_step
                     THEN [enc EXCEPT !.updates = @ + 1]
                     ELSE enc
         IN  /\ last' = Some([ step |-> logger.global_step,
                               phase |-> phase,
                               test |-> learning_mode,
                               dep_loss |-> dep_loss,
                               no_grad |-> (hparams.lr = 0),
                               result |-> r,
                               enc_before |-> enc,
                               enc_after |-> enc1 ])
             /\ enc' = enc1
             /\ optimizer' = IF r.did_opt_step
                             THEN [optimizer EXCEPT !.steps = @ + 1]
                             ELSE optimizer
             /\ IF r.status # "ok"
                THEN /\ logger' = logger
                     /\ events' = Append(events, [ev |-> "abort", phase |-> phase,
                                                  gs |-> logger.global_step])
                     /\ pc' = "error"
                ELSE /\ logger' = lg.logger
                     /\ events' =
                          LET e1 == Append(events,
                                      [ev |-> "step", phase |-> phase,
                                       gs |-> logger.global_step,
                                       test |-> learning_mode,
                                       opt |-> r.did_opt_step])
                          IN  IF lg.status = "ok"
                              THEN e1
                              ELSE Append(e1, [ev |-> "abort", phase |-> phase,
                                               gs |-> logger.global_step])
                     /\ pc' = IF lg.status = "ok" THEN "loop" ELSE "error"
    /\ UNCHANGED << hparams, phase, saved, arVars, compVars >>

\* the loop condition fails; lines 304-305: save_state_dict(encoder, "sup"/"unsup")
SaveStateDict ==
    /\ pc = "loop"
    /\ ~LoopCondition(hparams, logger.global_step, learning_mode)
    /\ saved' = Append(saved, [ file |-> IF learning_mode THEN "sup" ELSE "unsup",
                                params |-> enc ])
    /\ events' = Append(events, [ev |-> "save", phase |-> phase,
                                 gs |-> logger.global_step])
    /\ pc' = "reset"
    /\ UNCHANGED << hparams, phase, logger, enc, optimizer, last, arVars, compVars >>

\* line 307: reset_encoder(), then the next phase or the final report
ResetEncoder ==
    /\ pc = "reset"
    /\ enc' = [gen |-> enc.gen + 1, updates |-> 0]
    /\ optimizer' = [gen |-> enc.gen + 1, steps |-> 0]
    /\ events' = Append(events, [ev |-> "reset", phase |-> phase,
                                 gs |-> logger.global_step])
    /\ IF phase < Len(hparams.learning_modes)
       THEN /\ phase' = phase + 1
            /\ pc' = "init_log"
       ELSE /\ phase' = phase
            /\ pc' = "report"
    /\ UNCHANGED << hparams, logger, saved, last, arVars, compVars >>

\* line 309: self.logger.log_jacobian(dep_mat, ...). dep_mat is a local of
\* training_loop that only an iteration of the while loop assigns, so the line
\* raises UnboundLocalError when no iteration ran; otherwise the attribute lookup
\* raises AttributeError, Logger having no method log_jacobian. Line 310,
\* report_final_disentanglement_scores, is not reached.
Report ==
    /\ pc = "report"
    /\ events' = Append(events,
                    [ev |-> "abort", phase |-> phase, gs |-> logger.global_step,
                     error |-> IF \E k \in 1..Len(events) : events[k].ev = "step"
                               THEN "AttributeError"
                               ELSE "UnboundLocalError"])
    /\ pc' = "error"
    /\ UNCHANGED << hparams, phase, logger, enc, optimizer, saved, last, arVars, compVars >>

NextTrain ==
    \/ SetLearningMode
    \/ InitLogLists
    \/ TrainIteration
    \/ SaveStateDict
    \/ ResetEncoder
    \/ Report

SpecStep == InitStep /\ [][TrainIteration]_vars

SpecLoop == InitLoop /\ [][NextTrain]_vars

\* a Logger on its own: Logger.__init__ leaves total_loss_values None
InitLogger ==
    /\ ARIdle
    /\ CompIdle
    /\ \E h \in HparamsLoop :
         hparams = [h EXCEPT !.learning_modes = set_learning_mode(h.mode)]
    /\ pc = "logger"
    /\ phase = 1
    /\ logger = [ exists |-> FALSE, individual_losses_values |-> 0,
                  total_loss_values |-> 0, lin_dis_scores |-> 0,
                  perm_dis_scores |-> 0, causal_check |-> 0, global_step |-> 0 ]
    /\ enc = [gen |-> 0, updates |-> 0]
    /\ optimizer = [gen |-> 0, steps |-> 0]
    /\ saved = << >>
    /\ events = << >>
    /\ last = NoValue

\* a call of Logger.init_log_lists()
DoInitLogLists ==
    /\ pc = "logger"
    /\ logger' = init_log_lists(logger, hparams)
    /\ last' = Some([op |-> "init_log_lists", before |-> logger, status |-> "ok",
                     fresh |-> FALSE])
    /\ UNCHANGED << hparams, pc, phase, enc, optimizer, saved, events, arVars, compVars >>

\* a call of Logger.log(...) with arguments that match its signature, on a Logger
\* whose lists exist; an exception ends the run
DoLog ==
    /\ pc = "logger"
    /\ logger.exists
    /\ logger.global_step <= MaxSteps + 1
    /\ LET r == log(logger, hparams)
       IN  /\ logger' = r.logger
           /\ last' = Some([op |-> "log", before |-> logger, status |-> r.status,
                            fresh |-> FreshScores(logger, hparams)])
           /\ pc' = IF r.status = "ok" THEN "logger" ELSE "error"
    /\ UNCHANGED << hparams, phase, enc, optimizer, saved, events, arVars, compVars >>

NextLogger ==
    \/ DoInitLogLists
    \/ DoLog

SpecLogger == InitLogger /\ [][NextLogger]_vars

\* ------------------------------------------- claims on Runner and Logger
Opt(c, v) == IF c THEN v ELSE 0

\* the structural terms whose trigger condition holds, as the table of loss terms
\* states the triggers
ExpectedStructural(hp, global_step, dep_loss) ==
    LET started == hp.start_step = NoValue \/ global_step >= The(hp.start_step)
    IN    Opt(hp.l2 # 0, hp.l2 * TermValue("l2"))
        + Opt(hp.l1 # 0 /\ hp.use_ar_mlp, hp.l1 * TermValue("l1"))
        + Opt(hp.entropy_coeff # 0 /\ hp.permute,
              hp.entropy_coeff * TermValue("entropy"))
        + Opt(dep_loss # NoValue, TermValue("dep"))
        + Opt(hp.triangularity_loss # 0 /\ started,
              hp.triangularity_loss * TermValue("tri"))
        + Opt(hp.qr_loss # 0 /\ started, hp.qr_loss * TermValue("qr"))
        + Opt(hp.budget # 0 /\ hp.use_ar_mlp,
              hp.budget * TermValue("budget")
                + Opt(hp.entropy_coeff # 0,
                      hp.entropy_coeff * TermValue("budget_entropy")))

\* C6: the total loss train_step returns is the primary loss plus the
\* contribution of every structural term whose trigger holds, and terms whose
\* trigger is false contribute 0. Stated for the steps in which the structural
\* losses are assembled (lr # 0, identity_mixing_and_solution false).
C6_TotalIsSumOfTriggered ==
    (/\ last # NoValue
     /\ hparams.lr # 0
     /\ ~hparams.identity_mixing_and_solution) =>
        LET l == The(last)
        IN  /\ l.result.status = "ok"
            /\ l.result.total =
                 l.result.primary + ExpectedStructural(hparams, l.step, l.dep_loss)

TriQrAdded(r) == [tri |-> "tri" \in r.added, qr |-> "qr" \in r.added]

C17_L1TermAdded ==
    (/\ last # NoValue
     /\ The(last).result.entered
     /\ hparams.l1 # 0
     /\ hparams.use_ar_mlp) =>
        LET r == The(last).result
            others == [hparams EXCEPT !.l1 = 0]
        IN  /\ r.status = "ok"
            /\ "l1" \in r.added
            /\ r.total =
                 r.primary + hparams.l1 * TermValue("l1")
                   + ExpectedStructural(others, The(last).step, The(last).dep_loss)

EventsOf(p, kind) ==
    { k \in 1..Len(events) : events[k].phase = p /\ events[k].ev = kind }

\* the step budget of phase p
Budget(p) ==
    IF hparams.learning_modes[p]
    THEN hparams.n_steps
    ELSE (hparams.n_steps * hparams.mu_num) \div MuDen

Terminated == pc \in {"done", "error"}

\* every phase has run to its end: the encoder was persisted and then reset
AllPhasesEnded ==
    \A p \in 1..Len(hparams.learning_modes) :
        EventsOf(p, "save") # {} /\ EventsOf(p, "reset") # {}

\* C9: the phases run in list order, and in each phase the counters are
\* initialised, then all the steps run, then the encoder is persisted, and only
\* then it is reset with a fresh optimizer; no step of the next phase precedes the
\* reset, and the persisted parameters are the ones trained in the phase. Once
\* training_loop has ended, every phase of the list has gone through these events.
C9_PhaseOrder ==
    /\ \A k \in 1..Len(events) :
         LET e == events[k]
         IN  /\ e.phase \in 1..Len(hparams.learning_modes)
             /\ k = 1 => (e.ev = "init" /\ e.phase = 1)
             /\ k > 1 =>
                  LET d == events[k - 1]
                  IN  CASE e.ev = "init" -> d.ev = "reset" /\ e.phase = d.phase + 1
                        [] e.ev = "step" ->
                             /\ d.ev \in {"init", "step"}
                             /\ d.phase = e.phase
                             /\ e.test = hparams.learning_modes[e.phase]
                        [] e.ev = "save" ->
                             /\ d.ev \in {"init", "step"}
                             /\ d.phase = e.phase
                             /\ e.gs > Budget(e.phase)
                        [] e.ev = "reset" -> d.ev = "save" /\ d.phase = e.phase
                        [] e.ev = "report" ->
                             d.ev = "reset" /\ d.phase = Len(hparams.learning_modes)
                        [] e.ev = "abort" -> d.phase = e.phase
    /\ Len(saved) = Cardinality({ k \in 1..Len(events) : events[k].ev = "save" })
    /\ \A p \in 1..Len(saved) :
         /\ saved[p].file = IF hparams.learning_modes[p] THEN "sup" ELSE "unsup"
         /\ saved[p].params.gen = p - 1
         /\ saved[p].params.updates =
              Cardinality({ k \in EventsOf(p, "step") : events[k].opt })
    /\ pc \in {"init_log", "loop"} =>
         (enc.gen = phase - 1 /\ optimizer.gen = enc.gen)
    /\ Terminated => AllPhasesEnded

\* C10: in every phase the counter starts at 1 and grows by exactly 1 per step,
\* and the phase performs exactly its step budget before it ends (n_steps
\* supervised, floor(n_steps * more_unsupervised) unsupervised); training_loop
\* ends only by exhausting the budget of every phase.
C10_StepBudget ==
    /\ \A k \in 1..Len(events) :
         LET e == events[k]
         IN  /\ e.ev = "init" => e.gs = 1
             /\ e.ev = "step" =>
                  e.gs = 1 + Cardinality({ j \in EventsOf(e.phase, "step") : j < k })
             /\ e.ev = "save" =>
                  Cardinality(EventsOf(e.phase, "step")) = Budget(e.phase)
    /\ Terminated =>
         \A p \in 1..Len(hparams.learning_modes) :
             /\ EventsOf(p, "save") # {}
             /\ Cardinality(EventsOf(p, "step")) = Budget(p)

ListLengths(lg) ==
    { lg.total_loss_values, lg.individual_losses_values, lg.lin_dis_scores,
      lg.perm_dis_scores, lg.causal_check }

\* C18: after init_log_lists and after every completed call of Logger.log the
\* five lists have the same length and global_step is that length plus 1.
C18_ListsInStep ==
    (last # NoValue /\ The(last).status = "ok") =>
        /\ logger.exists
        /\ ListLengths(logger) = {logger.total_loss_values}
        /\ logger.global_step = logger.total_loss_values + 1

\* a call of log completed through the repeat-the-last-score branch, after at
\* least one earlier completed call
C18_Witness ==
    /\ last # NoValue
    /\ The(last).op = "log"
    /\ The(last).status = "ok"
    /\ ~The(last).fresh
    /\ logger.global_step >= 3

\* C19: Logger.log never reads [-1] of an empty score list: for every
\* n_log_steps >= 1 and n_steps >= 1 the first call after the lists were emptied
\* (global_step = 1) takes the fresh-scores branch, and the repeat branch runs
\* only with lin_dis_scores, perm_dis_scores and causal_check non-empty.
C19_NoEmptyRead ==
    (last # NoValue /\ The(last).op = "log") =>
        LET l == The(last)
        IN  /\ l.status # "IndexError"
            /\ l.before.global_step = 1 => l.fresh
            /\ ~l.fresh =>
                 /\ l.before.lin_dis_scores > 0
                 /\ l.before.perm_dis_scores > 0
                 /\ l.before.causal_check > 0

ResetsOf(p) == Cardinality(EventsOf(p, "reset"))

Reports == { k \in 1..Len(events) : events[k].ev = "report" }

\* C20: reset_encoder runs at most once per phase and only right after the
\* persistence of that phase; once training_loop has ended it has run exactly
\* once for every phase, the last one included, and the final report was invoked
\* exactly once, as the event right after the reset of the last phase.
C20_ResetThenReport ==
    /\ \A p \in 1..Len(hparams.learning_modes) : ResetsOf(p) <= 1
    /\ \A k \in 1..Len(events) :
         /\ events[k].ev = "reset" =>
              (k > 1 /\ events[k - 1].ev = "save" /\ events[k - 1].phase = events[k].phase)
         /\ events[k].ev = "report" =>
              /\ k > 1
              /\ events[k - 1].ev = "reset"
              /\ events[k - 1].phase = Len(hparams.learning_modes)
    /\ Cardinality(Reports) <= 1
    /\ Terminated =>
         /\ \A p \in 1..Len(hparams.learning_modes) : ResetsOf(p) = 1
         /\ Cardinality(Reports) = 1
         /\ events[Len(events)].ev = "report"

\* C11: once set_learning_mode has run, mode 'supervised' gives the phase list
\* [True], mode 'unsupervised' gives [False], and mode 'both' gives the two phases
\* [True, False], supervised first.
C11_LearningModes ==
    pc # "config" =>
        /\ hparams.mode = "supervised" => hparams.learning_modes = <<TRUE>>
        /\ hparams.mode = "unsupervised" => hparams.learning_modes = <<FALSE>>
        /\ hparams.mode = "both" => hparams.learning_modes = <<TRUE, FALSE>>

\* mode 'both' has been turned into its two phases and the first, supervised one
\* is running
C11_Witness ==
    /\ pc = "loop"
    /\ hparams.mode = "both"
    /\ hparams.learning_modes = <<TRUE, FALSE>>
    /\ learning_mode = TRUE

\* ------------------------------------------------------- SinkhornOperator
MaxSinkhornSteps == 2

\* floating-point numbers are held to a fixed precision of 1/Precision; a number
\* is finite, +inf or nan (every number here is non-negative)
Precision == 1024

Fin(v) == [k |-> "fin", v |-> v]

Inf == [k |-> "inf", v |-> 0]

NaN == [k |-> "nan", v |-> 0]

\* torch.exp on a float tensor: exp(0) = 1, exp(1) and exp(-1) rounded to the
\* precision; exp(1000) overflows to +inf and exp(-1000) underflows to 0 (in
\* float32 and in float64)
Exp(m) ==
    CASE m = 0 -> Fin(Precision)
      [] m = 1 -> Fin((2718 * Precision + 500) \div 1000)
      [] m = 0 - 1 -> Fin((368 * Precision + 500) \div 1000)
      [] m = 1000 -> Inf
      [] m = 0 - 1000 -> Fin(0)

\* x + y
FAdd(x, y) ==
    IF x.k = "nan" \/ y.k = "nan" THEN NaN
    ELSE IF x.k = "inf" \/ y.k = "inf" THEN Inf
    ELSE Fin(x.v + y.v)

\* x / y, rounded to the nearest representable number: inf/inf and 0/0 are nan
FDiv(x, y) ==
    IF x.k = "nan" \/ y.k = "nan" THEN NaN
    ELSE IF x.k = "inf" THEN (IF y.k = "inf" THEN NaN ELSE Inf)
    ELSE IF y.k = "inf" THEN Fin(0)
    ELSE IF y.v = 0 THEN (IF x.v = 0 THEN NaN ELSE Inf)
    ELSE Fin((2 * x.v * Precision + y.v) \div (2 * y.v))

RECURSIVE FSumUpTo(_, _)
FSumUpTo(f, n) == IF n = 0 THEN Fin(0) ELSE FAdd(FSumUpTo(f, n - 1), f[n])

\* (matrix @ ones_column)[i]
RowSum(S, i) == FSumUpTo(S[i], NumVars)

\* (ones_column.T @ matrix)[j]
ColSum(S, j) == FSumUpTo([i \in Idx |-> S[i][j]], NumVars)

_normalize_row(S) == [i \in Idx |-> [j \in Idx |-> FDiv(S[i][j], RowSum(S, i))]]

_normalize_column(S) == [i \in Idx |-> [j \in Idx |-> FDiv(S[i][j], ColSum(S, j))]]

\* one iteration of the loop: S = _normalize_column(_normalize_row(S))
SinkhornIteration(S) == _normalize_column(_normalize_row(S))

\* S after each of the first n iterations, starting from torch.exp(matrix)
RECURSIVE SinkhornSteps(_, _)
SinkhornSteps(matrix, n) ==
    IF n = 0 THEN << >>
    ELSE LET before == SinkhornSteps(matrix, n - 1)
             S == IF n = 1
                  THEN [i \in Idx |-> [j \in Idx |-> Exp(matrix[i][j])]]
                  ELSE before[n - 1]
         IN  Append(before, SinkhornIteration(S))

SinkhornEntries == {0 - 1000, 0 - 1, 0, 1, 1000}

\* the input matrices: one value on the diagonal, one above it, one below it
SinkhornInputs ==
    { [i \in Idx |-> [j \in Idx |-> IF i = j THEN a ELSE IF j > i THEN b ELSE c]] :
        a \in SinkhornEntries, b \in SinkhornEntries, c \in SinkhornEntries }

\* the constructor with the test num_steps < 0
SinkhornOperator__init___AcceptsZero(num_steps) ==
    /\ sinkhorn' =
         IF num_steps < 0
         THEN [SinkhornUnbuilt EXCEPT !.status = "ValueError",
                                      !.requested = Some(num_steps)]
         ELSE [SinkhornUnbuilt EXCEPT !.status = "ok",
                                      !.requested = Some(num_steps),
                                      !.operator = Some([num_steps |-> num_steps])]
    /\ UNCHANGED << arVars, trainVars, net, feature >>

\* SinkhornOperator(num_steps): raises ValueError before the object is returned
\* when num_steps < 1
SinkhornOperator__init__(num_steps) ==
    /\ sinkhorn' =
         IF num_steps < 1
         THEN [SinkhornUnbuilt EXCEPT !.status = "ValueError",
                                      !.requested = Some(num_steps)]
         ELSE [SinkhornUnbuilt EXCEPT !.status = "ok",
                                      !.requested = Some(num_steps),
                                      !.operator = Some([num_steps |-> num_steps])]
    /\ UNCHANGED << arVars, trainVars, net, feature >>

\* operator(matrix)
SinkhornOperator__call__(matrix) ==
    /\ sinkhorn.operator # NoValue
    /\ sinkhorn' = [sinkhorn EXCEPT
                       !.matrix = Some(matrix),
                       !.steps = SinkhornSteps(matrix, The(sinkhorn.operator).num_steps)]
    /\ UNCHANGED << arVars, trainVars, net, feature >>

DoSinkhornInit == \E k \in (0 - 1)..MaxSinkhornSteps : SinkhornOperator__init__(k)

DoSinkhornCall == \E M \in SinkhornInputs : SinkhornOperator__call__(M)

InitSinkhorn ==
    /\ ARIdle
    /\ TrainIdle
    /\ CompIdle

NextSinkhorn ==
    \/ DoSinkhornInit
    \/ DoSinkhornCall

SpecSinkhorn == InitSinkhorn /\ [][NextSinkhorn]_vars

\* ------------------------------------------- claims on SinkhornOperator
\* C12: constructing the operator with num_steps < 1 fails with a ValueError and
\* leaves no operator object; every num_steps >= 1 is accepted and yields an
\* operator with that iteration count.
C12_ConstructionGuard ==
    sinkhorn.requested # NoValue =>
        LET k == The(sinkhorn.requested)
        IN  /\ k < 1 => sinkhorn.status = "ValueError" /\ sinkhorn.operator = NoValue
            /\ k >= 1 => /\ sinkhorn.status = "ok"
                         /\ sinkhorn.operator = Some([num_steps |-> k])

\* a construction with num_steps = 0 was refused
C12_Witness ==
    /\ sinkhorn.requested = Some(0)
    /\ sinkhorn.status = "ValueError"
    /\ sinkhorn.operator = NoValue

IsPositive(x) == x.k = "fin" /\ x.v > 0

\* the largest distance of a row sum or a column sum from 1
Deviation(S) ==
    LET sums == { RowSum(S, i) : i \in Idx } \cup { ColSum(S, j) : j \in Idx }
    IN  IF \E x \in sums : x.k # "fin"
        THEN NaN
        ELSE LET d == { Abs(x.v - Precision) : x \in sums }
             IN  Fin(CHOOSE v \in d : \A u \in d : u <= v)

\* C13: for every square matrix M and every k >= 1, every entry of Sinkhorn(M, k)
\* is positive, and the deviation of the row and column sums from 1 does not grow
\* from one iteration to the next.
C13_SinkhornConverges ==
    sinkhorn.steps # << >> =>
        LET n == Len(sinkhorn.steps)
        IN  /\ \A i \in Idx : \A j \in Idx : IsPositive(sinkhorn.steps[n][i][j])
            /\ \A t \in 2..n :
                 LET now == Deviation(sinkhorn.steps[t])
                     before == Deviation(sinkhorn.steps[t - 1])
                 IN  now.k = "fin" /\ before.k = "fin" /\ now.v <= before.v

\* -------------------------------------------------------- ARBottleneckNet
MaxWidth == 2

MaxBatch == 2

\* the FeatureList arguments: no width, one width, two widths
FeatureLists ==
    {<< >>} \cup { <<a>> : a \in 1..MaxWidth }
            \cup { <<a, b>> : a \in 1..MaxWidth, b \in 1..MaxWidth }

\* the names ARMLP.__init__ recognises ("None" stands for the default None)
RecognisedInitFns == {"None", "orthogonal", "xavier_normal", "xavier_uniform", "sparse"}

InitFnNames == RecognisedInitFns \cup {"kaiming_normal", "zeros"}

\* a constructor whose if/elif chain ends in the default initialiser
ARMLP__init___DefaultsOnUnknown(weight_init_fn) ==
    [ status |-> "ok",
      object |-> Some([ weight_init_fn |-> IF weight_init_fn \in RecognisedInitFns
                                           THEN weight_init_fn
                                           ELSE "None" ]) ]

\* ARMLP.__init__, lines 33-65: the if/elif chain assigns self.weight_init_fn for
\* the recognised names only; building the weight stack then reads
\* self.weight_init_fn, which nn.Module.__getattr__ answers with AttributeError
\* when it was never assigned
ARMLP__init__(weight_init_fn) ==
    IF weight_init_fn \in RecognisedInitFns
    THEN [ status |-> "ok", object |-> Some([weight_init_fn |-> weight_init_fn]) ]
    ELSE [ status |-> "AttributeError", object |-> NoValue ]

\* the FeatureMLP layers of nn.Sequential, by their widths
_layer_generator(features) ==
    [ idx \in 1..(Len(features) - 1) |->
        [in_features |-> features[idx], out_feature |-> features[idx + 1]] ]

\* _init_feature_layers with _init_pre_layers and _init_post_layers: the layers
\* that were assigned, or the ValueError
_init_feature_layers(pre_layer_feats, post_layer_feats) ==
    IF Len(pre_layer_feats) = 0 /\ Len(post_layer_feats) = 0
    THEN [ status |-> "ValueError", pre_layers |-> NoValue, post_layers |-> NoValue ]
    ELSE IF Len(pre_layer_feats) # 0 /\ pre_layer_feats[1] # 1
    THEN [ status |-> "ValueError", pre_layers |-> NoValue, post_layers |-> NoValue ]
    ELSE IF Len(post_layer_feats) # 0 /\ post_layer_feats[Len(post_layer_feats)] # 1
    THEN [ status |-> "ValueError", pre_layers |-> NoValue, post_layers |-> NoValue ]
    ELSE [ status |-> "ok",
           pre_layers |-> IF Len(pre_layer_feats) # 0
                          THEN Some(_layer_generator(pre_layer_feats))
                          ELSE NoValue,
           post_layers |-> IF Len(post_layer_feats) # 0
                           THEN Some(_layer_generator(post_layer_feats))
                           ELSE NoValue ]

\* ARBottleneckNet(num_vars, pre_layer_feats, post_layer_feats, sinkhorn=...,
\* weight_init_fn=...)
ARBottleneckNet__init__(pre_layer_feats, post_layer_feats, use_sinkhorn, weight_init_fn) ==
    LET a == [ pre_layer_feats |-> pre_layer_feats,
               post_layer_feats |-> post_layer_feats,
               sinkhorn |-> use_sinkhorn, weight_init_fn |-> weight_init_fn ]
        layers == _init_feature_layers(pre_layer_feats, post_layer_feats)
        ar == ARMLP__init__(weight_init_fn)
    IN  /\ net' =
             IF layers.status # "ok"
             THEN [NetUnbuilt EXCEPT !.status = layers.status, !.args = Some(a)]
             ELSE IF ar.status # "ok"
             THEN [NetUnbuilt EXCEPT !.status = ar.status, !.args = Some(a),
                                     !.ar_bottleneck = Some(ar)]
             ELSE [NetUnbuilt EXCEPT
                      !.status = "ok", !.args = Some(a),
                      !.ar_bottleneck = Some(ar),
                      !.object = Some([ pre_layers |-> layers.pre_layers,
                                        post_layers |-> layers.post_layers,
                                        sinkhorn |-> use_sinkhorn ])]
        /\ UNCHANGED << arVars, trainVars, sinkhorn, feature >>

\* the shape FeatureMLP.forward returns for an input of shape r.shape
FeatureMLP_shape(layer, r) ==
    IF r.status # "ok" THEN r
    ELSE LET sh == IF layer.in_features = 1 /\ Len(r.shape) = 2
                   THEN Append(r.shape, 1)
                   ELSE r.shape
         IN  IF Len(sh) # 3 \/ sh[2] < NumVars
             THEN [status |-> "IndexError", shape |-> sh]
             ELSE IF sh[3] # layer.in_features
             THEN [status |-> "RuntimeError", shape |-> sh]
             ELSE [status |-> "ok", shape |-> <<sh[1], sh[2], layer.out_feature>>]

\* nn.Sequential: the layers applied in order
RECURSIVE Sequential_shape(_, _, _)
Sequential_shape(layers, n, r) ==
    IF n = 0 THEN r
    ELSE FeatureMLP_shape(layers[n], Sequential_shape(layers, n - 1, r))

\* ARMLP.forward: a num_vars x num_vars matrix @ x
ARMLP_shape(r) ==
    IF r.status # "ok" THEN r
    ELSE IF Len(r.shape) = 3
    THEN IF r.shape[2] = NumVars THEN r ELSE [r EXCEPT !.status = "RuntimeError"]
    ELSE IF r.shape[1] = NumVars THEN r ELSE [r EXCEPT !.status = "RuntimeError"]

\* self.sinkhorn(x), the learnable permutation applied to the variables: the soft
\* doubly-stochastic matrix is square, so the shape of the batch is kept
SinkhornNet_call_shape(r) == r

\* ARBottleneckNet.forward on an input of the given shape: the status it ends with
ARBottleneckNet_forward(obj, shape) ==
    IF obj.post_layers = NoValue \/ obj.pre_layers = NoValue
    THEN "AttributeError"
    ELSE LET pre == The(obj.pre_layers)
             post == The(obj.post_layers)
             r1 == Sequential_shape(pre, Len(pre), [status |-> "ok", shape |-> shape])
             r2 == IF r1.status = "ok" /\ obj.sinkhorn = TRUE
                   THEN SinkhornNet_call_shape(r1)
                   ELSE r1
             r3 == ARMLP_shape(r2)
             r4 == Sequential_shape(post, Len(post), r3)
         IN  r4.status

\* the inputs: a batch of one scalar per variable, with or without the feature axis
InputShapes ==
    { <<b, NumVars>> : b \in 1..MaxBatch } \cup { <<b, NumVars, 1>> : b \in 1..MaxBatch }

\* one network is constructed, with any arguments
DoNetInit ==
    /\ net = NetUnbuilt
    /\ \E pre \in FeatureLists : \E post \in FeatureLists :
         \E sk \in BOOLEAN : \E w \in InitFnNames :
             ARBottleneckNet__init__(pre, post, sk, w)

DoNetForward ==
    /\ net.object # NoValue
    /\ \E shape \in InputShapes :
         net' = [net EXCEPT !.input = Some(shape),
                            !.forward = ARBottleneckNet_forward(The(net.object), shape)]
    /\ UNCHANGED << arVars, trainVars, sinkhorn, feature >>

InitNet ==
    /\ ARIdle
    /\ TrainIdle
    /\ CompIdle

NextNet ==
    \/ DoNetInit
    \/ DoNetForward

SpecNet == InitNet /\ [][NextNet]_vars

\* ------------------------------------------- claims on ARBottleneckNet
\* the three configurations the constructor must refuse
BadFeatureLists(a) ==
    \/ Len(a.pre_layer_feats) = 0 /\ Len(a.post_layer_feats) = 0
    \/ Len(a.pre_layer_feats) # 0 /\ a.pre_layer_feats[1] # 1
    \/ Len(a.post_layer_feats) # 0
         /\ a.post_layer_feats[Len(a.post_layer_feats)] # 1

\* C14: constructing ARBottleneckNet fails with a ValueError and yields no object
\* when both feature lists are empty, when the first pre-layer width is not 1, or
\* when the last post-layer width is not 1; and every network that was constructed
\* runs forward without an error.
C14_ConstructionContract ==
    net.args # NoValue =>
        /\ BadFeatureLists(The(net.args)) =>
               net.status = "ValueError" /\ net.object = NoValue
        /\ (net.object # NoValue /\ net.forward # "not_called") => net.forward = "ok"

\* C15 as stated: an unrecognised weight_init_fn leaves the ARMLP constructor
\* without an error and with an object.
C15_Original ==
    (net.ar_bottleneck # NoValue
        /\ The(net.args).weight_init_fn \notin RecognisedInitFns)
    => /\ The(net.ar_bottleneck).status = "ok"
       /\ The(net.ar_bottleneck).object # NoValue

\* C15 amended: the ARMLP constructor ends without an error exactly for None and
\* the four recognised names; with any other weight_init_fn it raises
\* AttributeError and no object exists.
C15_InvalidInitFnFails ==
    net.ar_bottleneck # NoValue =>
        IF The(net.args).weight_init_fn \in RecognisedInitFns
        THEN /\ The(net.ar_bottleneck).status = "ok"
             /\ The(net.ar_bottleneck).object # NoValue
        ELSE /\ The(net.ar_bottleneck).status = "AttributeError"
             /\ The(net.ar_bottleneck).object = NoValue
             /\ net.status = "AttributeError"
             /\ net.object = NoValue

\* the ARMLP constructor was reached with an unrecognised name and raised
C15_Witness ==
    /\ net.ar_bottleneck # NoValue
    /\ The(net.args).weight_init_fn = "kaiming_normal"
    /\ The(net.ar_bottleneck).status = "AttributeError"

\* ------------------------------------------------------------- FeatureMLP
\* a FeatureMLP with in_features = 1: variable i owns the Linear layer with weight
\* w[i][o] and bias b[i][o] for each output feature o, and an activation
FeatureWeights ==
    { [i \in Idx |-> [o \in 1..out |-> c * (i + o - 1)]] :
        out \in 1..MaxWidth, c \in {0 - 1, 1} }

FeatureMLPs ==
    { [ num_vars |-> NumVars, in_features |-> 1, out_feature |-> Len(w[1]),
        weight |-> w,
        bias |-> [i \in Idx |-> [o \in 1..Len(w[1]) |-> IF bias THEN i ELSE 0]],
        force_identity |-> id ] :
        w \in FeatureWeights, bias \in BOOLEAN, id \in BOOLEAN }

\* the inputs, one sample with one scalar per variable: one channel holds a, the
\* others hold b
FeatureInputs ==
    { [i \in Idx |-> IF i = k THEN a ELSE b] :
        k \in Idx, a \in {0 - MaxVal, 0, MaxVal}, b \in {0 - MaxVal, 0, MaxVal} }

\* four times nn.LeakyReLU(negative_slope=0.25)(v), or four times nn.Identity()(v)
Act4(mlp, v) == IF mlp.force_identity \/ v >= 0 THEN 4 * v ELSE v

\* a forward whose ith layer also receives the next variable's channel
FeatureMLP_forward_MixesChannels(mlp, x) ==
    [ i \in Idx |->
        [ o \in 1..mlp.out_feature |->
            Act4(mlp, mlp.weight[i][o] * (x[i] + x[(i % NumVars) + 1])
                          + mlp.bias[i][o]) ] ]

\* FeatureMLP.forward: act[i](mlps[i](x[:, i, :])) stacked over the variables, in
\* quarters
FeatureMLP_forward(mlp, x) ==
    [ i \in Idx |->
        [ o \in 1..mlp.out_feature |->
            Act4(mlp, mlp.weight[i][o] * x[i] + mlp.bias[i][o]) ] ]

\* FeatureMLP(num_vars, 1, out_feature, bias, force_identity)
DoFeatureInit ==
    /\ feature = FeatureUnbuilt
    /\ \E mlp \in FeatureMLPs :
         feature' = [FeatureUnbuilt EXCEPT !.status = "ok", !.mlp = Some(mlp)]
    /\ UNCHANGED << arVars, trainVars, sinkhorn, net >>

\* mlp(x); the last two calls are remembered
DoFeatureForward ==
    /\ feature.mlp # NoValue
    /\ \E x \in FeatureInputs :
         LET call == [x |-> x, y |-> FeatureMLP_forward(The(feature.mlp), x)]
         IN  feature' = [feature EXCEPT
                            !.calls = IF Len(@) = 2
                                      THEN << @[2], call >>
                                      ELSE Append(@, call)]
    /\ UNCHANGED << arVars, trainVars, sinkhorn, net >>

InitFeature ==
    /\ ARIdle
    /\ TrainIdle
    /\ CompIdle

NextFeature ==
    \/ DoFeatureInit
    \/ DoFeatureForward

SpecFeature == InitFeature /\ [][NextFeature]_vars

\* C16: for any two inputs to the same FeatureMLP that agree on the channel of
\* variable i, whatever the other channels hold, the outputs for variable i are
\* identical.
C16_VariablesIsolated ==
    \A c \in 1..Len(feature.calls) : \A d \in 1..Len(feature.calls) :
        \A i \in Idx :
            feature.calls[c].x[i] = feature.calls[d].x[i]
                => feature.calls[c].y[i] = feature.calls[d].y[i]

\* two inputs that agree on one channel and differ on another one, where the layer
\* of the other channel tells them apart
C16_Witness ==
    /\ Len(feature.calls) = 2
    /\ \E i \in Idx : \E j \in Idx :
         /\ feature.calls[1].x[i] = feature.calls[2].x[i]
         /\ feature.calls[1].x[j] # feature.calls[2].x[j]
         /\ feature.calls[1].y[j] # feature.calls[2].y[j]
         /\ feature.calls[1].y[i] = feature.calls[2].y[i]
         /\ feature.calls[1].y[i][1] # 0
====
